---------------------------- MODULE Spec2Model ----------------------------
(***************************************************************************)
(* A model of the account-security service (services/User/UserManagement)  *)
(* and of the message-creation route (routes/channels/channelMessageCreate)*)
(* of adschat-server.                                                      *)
(*                                                                         *)
(* Every exported async function is split at its awaits on the database,   *)
(* the cache and the socket layer: one action per database statement, so   *)
(* that concurrent requests interleave exactly where the event loop lets   *)
(* them.  The synchronous code that follows an await belongs to the action *)
(* of that await.                                                          *)
(***************************************************************************)
EXTENDS Integers, Sequences, FiniteSets, TLC

(***************************************************************************)
(* Bounds of the model.                                                    *)
(***************************************************************************)
\* how many times the clock may advance
MaxTicks == 1
\* how many reset codes may be issued (ghost numbering of issues)
MaxIssues == 2
\* how many messages may be persisted
MaxMessages == 1
MaxRequests == 2

\* concurrent request slots of the worker
Procs == {1, 2}
\* "u1" owns a User and an Account row; "u2" is an id no row carries
UserIds == {"u1", "u2"}
Emails == {"e1", "e2"}
EmailOf(u) == IF u = "u1" THEN "e1" ELSE "e2"
\* what generateEmailConfirmCode / generateSecureCode may draw
Codes == {"c1", "c2"}
Tags == {"t1"}
\* the realtime sessions a user may open
SocketIds == {"s1"}
\* the tables deleteAccountFromDatabase empties with deleteMany
DependentTables ==
  {"follower", "userProfile", "serverChannelLastSeen", "userDevice",
   "userConnection", "chatNotice", "userNotice"}

(***************************************************************************)
(* Strings whose only relevant structure is their whitespace: a string is  *)
(* lead whitespace characters, then core characters that start and end     *)
(* with a non-whitespace one, then trail whitespace characters.  A string  *)
(* of whitespace only has core = 0 and trail = 0.                          *)
(***************************************************************************)
Str(l, c, t) == [lead |-> l, core |-> c, trail |-> t]
StrLen(s) == s.lead + s.core + s.trail
\* String.prototype.trim
Trim(s) == Str(0, s.core, 0)
\* JavaScript truthiness of a string
Truthy(s) == StrLen(s) > 0

\* the passwords a caller may send: "", " a "
NoPassword == Str(0, 0, 0)
SomePassword == Str(1, 1, 1)
NewPasswords == {NoPassword, SomePassword}
\* bcrypt.hash(s, 10)
BcryptHash(s) == [hashOf |-> s]
InitialPassword == BcryptHash(Str(0, 2, 0))

(***************************************************************************)
(* Values of a result pair.                                                *)
(***************************************************************************)
Val(t, s, n) == [t |-> t, s |-> s, n |-> n]
Null == Val("null", "", 0)
True == Val("true", "", 0)
Message(m) == Val("message", m, 0)
\* `DEV MODE: Email verify code: ${code}`
DevCodeMessage(code) == Val("devcode", code, 0)
\* `DEV MODE: Password reset link: ${url}`, url carrying code and userId
DevLinkMessage(code, userId) == Val("devlink", code, 0)
Token(userId, version) == Val("token", userId, version)
\* generateError(message)
generateError(m) == Val("error", m, 0)
Pair(r, e) == <<r, e>>
NoResult == Pair(Null, Null)

NoDate == -1
\* 60 * 60 * 1000
EXPIRE_MS == 60 * 60 * 1000
\* the steps the clock may take: an hour, or an hour and a second
TickSteps == {EXPIRE_MS, EXPIRE_MS + 1000}
TickCount(t) == t \div EXPIRE_MS

VARIABLES
  Account,      \* prisma.account: userId -> row
  User,         \* prisma.user: id -> row
  Dependents,   \* userId -> the dependent tables that hold rows of the user
  userCache,    \* the user ids with an entry in the read cache
  sockets,      \* userId -> the live sessions in the user's room
  now,          \* Date.now()
  devMode,      \* env.DEV_MODE
  procs,        \* request slot -> the request in flight in it
  returned,     \* what the step just taken handed to a caller, if it ended a request
  issueSeq,     \* ghost: how many reset codes were issued
  used,         \* ghost: the issues a successful resetPassword consumed
  req,          \* the POST /channels/:channelId/messages request in flight
  res,          \* the response the step just taken sent, if it sent one
  messages,     \* the messages createMessage persisted, oldest first
  rate,         \* the create_message counter of the sender and its window
  posted        \* ghost: how many requests were posted

vars ==
  <<Account, User, Dependents, userCache, sockets, now, devMode, procs,
    returned, issueSeq, used, req, res, messages, rate, posted>>
db == <<Account, User, Dependents>>
\* what the account service reads and writes
service ==
  <<Account, User, Dependents, userCache, sockets, now, devMode, procs,
    issueSeq, used>>

(***************************************************************************)
(* Rows.                                                                   *)
(***************************************************************************)
\* a null column of text
NoCode == "null"
NoText == "null"

\* the Account row a registration leaves.  Two ghost columns: `issue`, the
\* number of the sendResetPasswordCode call that wrote resetPasswordCode,
\* and `priorConfirmCode`, the emailConfirmCode the last
\* updateAccountConfirmCode overwrote
NewAccount(u, apps) ==
  [userId |-> u, email |-> EmailOf(u), password |-> InitialPassword,
   passwordVersion |-> 0, emailConfirmed |-> FALSE, emailConfirmCode |-> NoCode,
   resetPasswordCode |-> NoCode, resetPasswordCodeExpiresAt |-> NoDate,
   applications |-> apps, issue |-> 0, priorConfirmCode |-> NoCode]

NewUser(u, servers) ==
  [id |-> u, username |-> <<"name", u>>, avatar |-> "avatar.png",
   banner |-> "banner.png", badges |-> 1, customStatus |-> "hi",
   servers |-> servers]

HasAccount(userId) == userId \in DOMAIN Account
HasUser(userId) == userId \in DOMAIN User

(***************************************************************************)
(* Requests.  A request is the call's arguments and where it stands.       *)
(* `did` lists, in order, the side effects the request has performed:      *)
(* "write" (a database write committed), "cache" (the read cache of the    *)
(* user invalidated), "disconnect" (the user's sessions disconnected).     *)
(* `stale` holds the sessions that were live when the request changed the  *)
(* password and that nobody has disconnected since.                        *)
(***************************************************************************)
Idle ==
  [pc |-> "idle", op |-> "", userId |-> "", code |-> "",
   newPassword |-> Str(0, 0, 0), bot |-> FALSE, issue |-> 0, version |-> 0,
   stale |-> {}, did |-> <<>>]

Call(op, userId, code) ==
  [Idle EXCEPT !.op = op, !.userId = userId, !.code = code]

NothingReturned ==
  [kind |-> "none", op |-> "", userId |-> "", code |-> "",
   result |-> NoResult, did |-> <<>>, mail |-> "none", stale |-> {}]

Free(p) == procs[p].pc = "idle"
\* request slots are interchangeable: a new request takes the lowest free one
CanStart(p) == Free(p) /\ \A q \in Procs : q < p => ~Free(q)
InFlight(pc) == {q \in Procs : procs[q].pc = pc}

\* the request goes on to its next await
Continue(p, request) ==
  /\ procs' = [procs EXCEPT ![p] = request]
  /\ returned' = NothingReturned

\* what the caller of `call` gets when it returns `result`
Returned(call, result, did, mail, stale) ==
  [kind |-> "return", op |-> call.op, userId |-> call.userId,
   code |-> call.code, result |-> result, did |-> did, mail |-> mail,
   stale |-> stale]

\* the function returns `result`, having performed `did` and dispatched `mail`
Return(p, call, result, did, mail) ==
  /\ procs' = [procs EXCEPT ![p] = Idle]
  /\ returned' = Returned(call, result, did, mail, call.stale)

\* the promise rejects: prisma's update found no row to update
Raise(p) ==
  /\ procs' = [procs EXCEPT ![p] = Idle]
  /\ returned' = [Returned(procs[p], NoResult, procs[p].did, "none", {})
                    EXCEPT !.kind = "raise"]

\* [null, generateError(message)]
Failure(message) == Pair(Null, generateError(message))

(***************************************************************************)
(* Email confirmation.                                                     *)
(***************************************************************************)
\* sendEmailConfirmCode up to its first write: getAccountByUserId and the
\* two early returns
sendEmailConfirmCode(p, userId) ==
  LET call == Call("sendEmailConfirmCode", userId, "") IN
  /\ CanStart(p)
  /\ IF ~HasAccount(userId)
       THEN Return(p, call, Failure("Invalid userId."), <<>>, "none")
       ELSE IF Account[userId].emailConfirmed
         THEN Return(p, call, Failure("Email already verified."),
                     <<>>, "none")
         ELSE Continue(p, [call EXCEPT !.pc = "updateAccountConfirmCode"])
  /\ UNCHANGED <<db, userCache, sockets, now, devMode, issueSeq, used>>

\* an answer that mails the code whatever env.DEV_MODE is
ConfirmCodeSent_AlwaysMailed(p, code) ==
  Return(p, procs[p], Pair(Message("Email confirmation code sent."), Null),
         <<"write">>, "confirm")

\* what sendEmailConfirmCode does once the code is written: the DEV_MODE
\* answer, or the mail and the answer
ConfirmCodeSent(p, code) ==
  IF devMode
    THEN Return(p, procs[p], Pair(DevCodeMessage(code), Null),
                <<"write">>, "none")
    ELSE Return(p, procs[p],
                Pair(Message("Email confirmation code sent."), Null),
                <<"write">>, "confirm")

\* updateAccountConfirmCode, and the rest of sendEmailConfirmCode
updateAccountConfirmCode(p, code) ==
  /\ procs[p].pc = "updateAccountConfirmCode"
  /\ IF ~HasAccount(procs[p].userId)
       THEN /\ Raise(p)
            /\ UNCHANGED Account
       ELSE /\ Account' = [Account EXCEPT
                 ![procs[p].userId].emailConfirmCode = code,
                 ![procs[p].userId].priorConfirmCode =
                    Account[procs[p].userId].emailConfirmCode]
            /\ ConfirmCodeSent(p, code)
  /\ UNCHANGED <<User, Dependents, userCache, sockets, now, devMode,
                 issueSeq, used>>

\* a comparison that only rejects a missing code
CodeDiffers_OnlyEmpty(stored, code) == code = ""

\* account.emailConfirmCode !== code
CodeDiffers(stored, code) == stored # code

\* verifyEmailConfirmCode up to its write: getAccountByUserId and the four
\* early returns
verifyEmailConfirmCode(p, userId, code) ==
  LET call == Call("verifyEmailConfirmCode", userId, code) IN
  /\ CanStart(p)
  /\ IF ~HasAccount(userId)
       THEN Return(p, call, Failure("Invalid userId."), <<>>, "none")
       ELSE IF Account[userId].emailConfirmed
         THEN Return(p, call, Failure("Email already verified."),
                     <<>>, "none")
         ELSE IF Account[userId].emailConfirmCode = NoCode
           THEN Return(p, call,
                       Failure("You must request email verification first."),
                       <<>>, "none")
           ELSE IF CodeDiffers(Account[userId].emailConfirmCode, code)
             THEN Return(p, call, Failure("Invalid code."), <<>>, "none")
             ELSE Continue(p, [call EXCEPT
                                 !.pc = "updateAccountEmailConfirmed"])
  /\ UNCHANGED <<db, userCache, sockets, now, devMode, issueSeq, used>>

\* a confirmation that also bumps passwordVersion
EmailConfirmedData_BumpsVersion(a) ==
  [a EXCEPT !.emailConfirmed = TRUE, !.emailConfirmCode = NoCode,
            !.passwordVersion = a.passwordVersion + 1]

\* the data of updateAccountEmailConfirmed's update, applied to row `a`
EmailConfirmedData(a) ==
  [a EXCEPT !.emailConfirmed = TRUE, !.emailConfirmCode = NoCode]

\* updateAccountEmailConfirmed
updateAccountEmailConfirmed(p) ==
  /\ procs[p].pc = "updateAccountEmailConfirmed"
  /\ IF ~HasAccount(procs[p].userId)
       THEN /\ Raise(p)
            /\ UNCHANGED Account
       ELSE /\ Account' = [Account EXCEPT ![procs[p].userId] =
                             EmailConfirmedData(@)]
            /\ Continue(p, [procs[p] EXCEPT !.pc = "verify_removeUserCache",
                                            !.did = <<"write">>])
  /\ UNCHANGED <<User, Dependents, userCache, sockets, now, devMode,
                 issueSeq, used>>

\* removeUserCacheByUserIds([userId])
removeUserCacheByUserIds(userId) == userCache' = userCache \ {userId}

\* the end of verifyEmailConfirmCode: the cache entry is removed and the
\* function returns [true, null]
verify_removeUserCache(p) ==
  /\ procs[p].pc = "verify_removeUserCache"
  /\ removeUserCacheByUserIds(procs[p].userId)
  /\ Return(p, procs[p], Pair(True, Null), Append(procs[p].did, "cache"),
            "none")
  /\ UNCHANGED <<db, sockets, now, devMode, issueSeq, used>>

(***************************************************************************)
(* Realtime sessions.                                                      *)
(***************************************************************************)
\* disconnectSockets(userId), called without excludeSocketId: every session
\* in the user's room is told 'Invalid Token' and disconnected
disconnectSockets(userId) == sockets' = [sockets EXCEPT ![userId] = {}]
\* ghost: the sessions disconnectSockets(userId) removes are stale no more
Disconnected(pr, userId) ==
  [q \in Procs |-> [pr[q] EXCEPT !.stale = pr[q].stale \ sockets[userId]]]

(***************************************************************************)
(* Password reset.                                                         *)
(***************************************************************************)
\* prisma.account.findFirst({ where: { email } })
AccountsByEmail(email) == {u \in DOMAIN Account : Account[u].email = email}

\* sendResetPasswordCode up to its write
sendResetPasswordCode(p, email) ==
  /\ CanStart(p)
  /\ issueSeq + Cardinality(InFlight("updateForgotPasswordCode")) < MaxIssues
  /\ IF AccountsByEmail(email) = {}
       THEN Return(p, Call("sendResetPasswordCode", "", ""),
                   Failure("Invalid email."), <<>>, "none")
       ELSE \E u \in AccountsByEmail(email) :
              Continue(p, [Call("sendResetPasswordCode",
                                Account[u].userId, "")
                             EXCEPT !.pc = "updateForgotPasswordCode"])
  /\ UNCHANGED <<db, userCache, sockets, now, devMode, issueSeq, used>>

\* what sendResetPasswordCode does once the code is written
ResetCodeSent(p, code) ==
  IF devMode
    THEN Return(p, procs[p],
                Pair(DevLinkMessage(code, procs[p].userId), Null),
                <<"write">>, "none")
    ELSE Return(p, procs[p],
                Pair(Message("Password reset link sent to your email."), Null),
                <<"write">>, "reset")

\* dateToDateTime(new Date(Date.now() + 60 * 60 * 1000)): the ISO string of
\* that instant, which the DateTime column stores to the millisecond
ExpiresAt(t) == t + EXPIRE_MS

\* updateForgotPasswordCode, and the rest of sendResetPasswordCode
updateForgotPasswordCode(p, code) ==
  /\ procs[p].pc = "updateForgotPasswordCode"
  /\ IF ~HasAccount(procs[p].userId)
       THEN /\ Raise(p)
            /\ UNCHANGED <<Account, issueSeq>>
       ELSE /\ Account' = [Account EXCEPT
                 ![procs[p].userId].resetPasswordCode = code,
                 ![procs[p].userId].resetPasswordCodeExpiresAt = ExpiresAt(now),
                 ![procs[p].userId].issue = issueSeq + 1]
            /\ issueSeq' = issueSeq + 1
            /\ ResetCodeSent(p, code)
  /\ UNCHANGED <<User, Dependents, userCache, sockets, now, devMode, used>>

\* a where clause that leaves resetPasswordCodeExpiresAt out
ResetCodeMatches_NoExpiry(a, userId, code, t) ==
  /\ a.userId = userId
  /\ a.resetPasswordCode # NoCode
  /\ a.resetPasswordCode = code

\* a where clause that leaves resetPasswordCode out
ResetCodeMatches_AnyCode(a, userId, code, t) ==
  /\ a.userId = userId
  /\ a.resetPasswordCode # NoCode
  /\ a.resetPasswordCodeExpiresAt >= t

\* the where clause of resetPassword's findFirst, for a row `a`:
\* userId, resetPasswordCode, resetPasswordCodeExpiresAt: { gte: new Date() }
ResetCodeMatches(a, userId, code, t) ==
  /\ a.userId = userId
  /\ a.resetPasswordCode # NoCode
  /\ a.resetPasswordCode = code
  /\ a.resetPasswordCodeExpiresAt # NoDate
  /\ a.resetPasswordCodeExpiresAt >= t

AccountsForReset(userId, code, t) ==
  {u \in DOMAIN Account : ResetCodeMatches(Account[u], userId, code, t)}

\* resetPassword up to its write: the three argument checks and findFirst.
\* userId and code are strings, "" when missing
resetPassword(p, userId, code, newPassword) ==
  LET call == [Call("resetPassword", userId, code)
                 EXCEPT !.newPassword = newPassword] IN
  /\ CanStart(p)
  /\ IF code = ""
       THEN Return(p, call, Failure("Invalid code."), <<>>, "none")
       ELSE IF ~Truthy(newPassword)
         THEN Return(p, call, Failure("Invalid password."), <<>>, "none")
         ELSE IF userId = ""
           THEN Return(p, call, Failure("Invalid userId."), <<>>, "none")
           ELSE IF AccountsForReset(userId, code, now) = {}
             THEN Return(p, call, Failure("Invalid or expired code."),
                         <<>>, "none")
             ELSE \E u \in AccountsForReset(userId, code, now) :
                    Continue(p, [call EXCEPT !.pc = "reset_update",
                                             !.issue = Account[u].issue])
  /\ UNCHANGED <<db, userCache, sockets, now, devMode, issueSeq, used>>

\* the data of resetPassword's update, applied to row `a`
ResetPasswordData(a, newPassword) ==
  [a EXCEPT !.password = BcryptHash(Trim(newPassword)),
            !.passwordVersion = a.passwordVersion + 1,
            !.resetPasswordCode = NoCode,
            !.resetPasswordCodeExpiresAt = NoDate]

\* prisma.account.update of resetPassword
reset_update(p) ==
  /\ procs[p].pc = "reset_update"
  /\ IF ~HasAccount(procs[p].userId)
       THEN /\ Raise(p)
            /\ UNCHANGED <<Account, used>>
       ELSE /\ Account' = [Account EXCEPT ![procs[p].userId] =
                             ResetPasswordData(@, procs[p].newPassword)]
            /\ used' = used \cup {procs[p].issue}
            /\ Continue(p, [procs[p] EXCEPT
                 !.pc = "reset_removeUserCache",
                 !.version = Account[procs[p].userId].passwordVersion + 1,
                 !.stale = sockets[procs[p].userId],
                 !.did = <<"write">>])
  /\ UNCHANGED <<User, Dependents, userCache, sockets, now, devMode, issueSeq>>

\* await removeUserCacheByUserIds([opts.userId]) of resetPassword
reset_removeUserCache(p) ==
  /\ procs[p].pc = "reset_removeUserCache"
  /\ removeUserCacheByUserIds(procs[p].userId)
  /\ Continue(p, [procs[p] EXCEPT !.pc = "reset_generateToken",
                                  !.did = Append(@, "cache")])
  /\ UNCHANGED <<db, sockets, now, devMode, issueSeq, used>>

\* generateToken(account.userId, updateResult.passwordVersion): a token, or
\* the falsy value resetPassword tests for
TokenResults(userId, version) == {Token(userId, version), Null}

\* the end of resetPassword: generateToken, disconnectSockets when there is
\* a token, return [newToken, null]
reset_generateToken(p, newToken) ==
  /\ procs[p].pc = "reset_generateToken"
  /\ newToken \in TokenResults(procs[p].userId, procs[p].version)
  /\ IF newToken # Null
       THEN /\ disconnectSockets(procs[p].userId)
            /\ procs' = Disconnected([procs EXCEPT ![p] = Idle],
                                     procs[p].userId)
            /\ returned' =
                 Returned(procs[p], Pair(newToken, Null),
                          Append(procs[p].did, "disconnect"), "none",
                          procs[p].stale \ sockets[procs[p].userId])
       ELSE /\ Return(p, procs[p], Pair(newToken, Null), procs[p].did,
                      "none")
            /\ UNCHANGED sockets
  /\ UNCHANGED <<db, userCache, now, devMode, issueSeq, used>>

(***************************************************************************)
(* Account deletion.                                                       *)
(***************************************************************************)
\* a count that misses the memberships
ServerCount_Zero(userId) == 0

\* user._count.servers
ServerCount(userId) == User[userId].servers
\* user.account?._count.applications: undefined when the user has no account
ApplicationCount(userId) ==
  IF HasAccount(userId) THEN Account[userId].applications ELSE 0

\* deleteAccount up to its transaction: findUnique and the three early
\* returns
deleteAccount(p, userId, bot) ==
  LET call == [Call("deleteAccount", userId, "") EXCEPT !.bot = bot] IN
  /\ CanStart(p)
  /\ IF ~HasUser(userId)
       THEN Return(p, call, Failure("Invalid userId."), <<>>, "none")
       ELSE IF ~bot /\ ServerCount(userId) # 0
         THEN Return(p, call,
                Failure("You must leave all servers before deleting your account."),
                <<>>, "none")
         ELSE IF ~bot /\ ApplicationCount(userId) # 0
           THEN Return(p, call,
                  Failure("You must delete all applications before deleting your account."),
                  <<>>, "none")
           ELSE Continue(p, [call EXCEPT !.pc = "deleteAccountFromDatabase"])
  /\ UNCHANGED <<db, userCache, sockets, now, devMode, issueSeq, used>>

\* `Deleted ${bot ? 'Bot' : 'User'} ${generateTag()}`
DeletedUsername(bot, tag) ==
  <<"Deleted", IF bot THEN "Bot" ELSE "User", tag>>

\* the data of the transaction's prisma.user.update, applied to row `u`
AnonymizedUser(u, bot, tag) ==
  [u EXCEPT !.avatar = NoText, !.banner = NoText, !.badges = 0,
            !.customStatus = NoText, !.username = DeletedUsername(bot, tag)]

\* a transaction that leaves the Account row
AccountsWithout_Kept(userId) == Account

\* prisma.account.deleteMany({ where: { userId } })
AccountsWithout(userId) ==
  [u \in DOMAIN Account \ {userId} |-> Account[u]]

\* the deleteMany of the transaction on the dependent tables
DependentsWithout(userId) == [Dependents EXCEPT ![userId] = {}]

\* deleteAccountFromDatabase: one prisma.$transaction
deleteAccountFromDatabase(p, tag) ==
  /\ procs[p].pc = "deleteAccountFromDatabase"
  /\ Dependents' = DependentsWithout(procs[p].userId)
  /\ User' = [User EXCEPT ![procs[p].userId] =
                AnonymizedUser(@, procs[p].bot, tag)]
  /\ Account' = AccountsWithout(procs[p].userId)
  /\ Continue(p, [procs[p] EXCEPT !.pc = "delete_removeUserCache",
                                  !.did = <<"write">>])
  /\ UNCHANGED <<userCache, sockets, now, devMode, issueSeq, used>>

\* await removeUserCacheByUserIds([userId]) of deleteAccount
delete_removeUserCache(p) ==
  /\ procs[p].pc = "delete_removeUserCache"
  /\ removeUserCacheByUserIds(procs[p].userId)
  /\ Continue(p, [procs[p] EXCEPT !.pc = "delete_disconnectSockets",
                                  !.did = Append(@, "cache")])
  /\ UNCHANGED <<db, sockets, now, devMode, issueSeq, used>>

\* the end of deleteAccount: disconnectSockets(userId), return [true, null]
delete_disconnectSockets(p) ==
  /\ procs[p].pc = "delete_disconnectSockets"
  /\ disconnectSockets(procs[p].userId)
  /\ procs' = Disconnected([procs EXCEPT ![p] = Idle], procs[p].userId)
  /\ returned' = Returned(procs[p], Pair(True, Null),
                          Append(procs[p].did, "disconnect"), "none", {})
  /\ UNCHANGED <<db, userCache, now, devMode, issueSeq, used>>

(***************************************************************************)
(* The service's surroundings.                                             *)
(***************************************************************************)
\* the clock advances
Tick(d) ==
  /\ TickCount(now) < MaxTicks
  /\ now' = now + d
  /\ returned' = NothingReturned
  /\ UNCHANGED <<db, userCache, sockets, devMode, procs, issueSeq, used>>

\* a client of a user who has an account authenticates a realtime session,
\* which joins the user's room
Connect(u, s) ==
  /\ HasAccount(u)
  /\ s \notin sockets[u]
  /\ sockets' = [sockets EXCEPT ![u] = @ \cup {s}]
  /\ returned' = NothingReturned
  /\ UNCHANGED <<db, userCache, now, devMode, procs, issueSeq, used>>

\* an authenticated request reads the user's account through the read
\* cache, which fills the user's entry
CacheFill(u) ==
  /\ HasAccount(u)
  /\ u \notin userCache
  /\ userCache' = userCache \cup {u}
  /\ returned' = NothingReturned
  /\ UNCHANGED <<db, sockets, now, devMode, procs, issueSeq, used>>

(***************************************************************************)
(* POST /channels/:channelId/messages.  A body field is undefined, a       *)
(* string, or a value of another type.                                     *)
(***************************************************************************)
Undefined == [kind |-> "undefined", str |-> Str(0, 0, 0)]
NotAString == [kind |-> "number", str |-> Str(0, 0, 0)]
Text(s) == [kind |-> "string", str |-> s]

\* isLength({ min: 1, max: 2000 }) of content, { min: 1, max: 255 } of socketId
MinContent == 1
MaxContent == 2000
MinSocketId == 1
MaxSocketId == 255

\* the lengths the trimmed content of a request takes, and its margins
ContentCores == {0, MinContent, MaxContent, MaxContent + 1}
Margins == {0, 1}
Contents ==
  {Undefined, NotAString}
    \cup {Text(Str(m, c, m)) : m \in Margins, c \in ContentCores}
SocketIdFields == {Undefined, Text(Str(0, MaxSocketId, 0)), Text(Str(0, MaxSocketId, 1))}

\* ChannelType, and the types that carry text
ChannelTypes == {"DM_TEXT", "SERVER_TEXT", "CATEGORY"}
TextChannelTypes == {"DM_TEXT", "SERVER_TEXT"}
NoInbox == [present |-> FALSE, canMessage |-> FALSE]
Inbox(canMessage) == [present |-> TRUE, canMessage |-> canMessage]

\* a & b and a | b of two permission integers
RECURSIVE BitAnd(_, _)
BitAnd(a, b) ==
  IF a = 0 \/ b = 0 THEN 0
  ELSE (a % 2) * (b % 2) + 2 * BitAnd(a \div 2, b \div 2)
RECURSIVE BitOr(_, _)
BitOr(a, b) ==
  IF a = 0 THEN b
  ELSE IF b = 0 THEN a
  ELSE (IF a % 2 = 1 \/ b % 2 = 1 THEN 1 ELSE 0)
         + 2 * BitOr(a \div 2, b \div 2)
\* (permissions & bit) != 0
hasBit(permissions, bit) == BitAnd(permissions, bit) # 0

\* CHANNEL_PERMISSIONS.SEND_MESSAGE.bit and ROLE_PERMISSIONS.SEND_MESSAGE,
\* and one more bit of each enumeration
CHANNEL_SEND_MESSAGE == 2
CHANNEL_OTHER == 1
ROLE_SEND_MESSAGE == 2
ROLE_OTHER == 1
ROLE_ANOTHER == 4

\* the OR of the permission integers of the roles a member holds
RECURSIVE EffectivePermissions(_)
EffectivePermissions(roles) ==
  IF roles = {} THEN 0
  ELSE LET r == CHOOSE x \in roles : TRUE
       IN BitOr(r, EffectivePermissions(roles \ {r}))

\* req.channelCache: a direct-message channel has an inbox and no server
DMChannel(canMessage) ==
  [type |-> "DM_TEXT", inbox |-> Inbox(canMessage), permissions |-> 0]
ServerChannel(type, permissions) ==
  [type |-> type, inbox |-> NoInbox, permissions |-> permissions]
\* the channels of every type that let their members send
Channels ==
  {DMChannel(b) : b \in BOOLEAN}
    \cup {ServerChannel(t, CHANNEL_SEND_MESSAGE) : t \in {"SERVER_TEXT", "CATEGORY"}}
\* the channels of every permission integer
ChannelPermissionSets ==
  {0, CHANNEL_OTHER, CHANNEL_SEND_MESSAGE,
   BitOr(CHANNEL_OTHER, CHANNEL_SEND_MESSAGE)}
PermissionChannels ==
  {DMChannel(b) : b \in BOOLEAN}
    \cup {ServerChannel("SERVER_TEXT", c) : c \in ChannelPermissionSets}
    \cup {ServerChannel("CATEGORY", CHANNEL_SEND_MESSAGE)}

\* req.serverMemberCache and req.serverCache: the permission integers of the
\* sender's roles, and whether the sender created the server
Member(owner, roles) == [owner |-> owner, roles |-> roles]
RolePermissionSets ==
  {ROLE_OTHER, ROLE_SEND_MESSAGE, BitOr(ROLE_OTHER, ROLE_ANOTHER)}
Senders == {Member(o, rs) : o \in BOOLEAN, rs \in SUBSET RolePermissionSets}
\* a member whose one role lets them send
Sender == Member(FALSE, {ROLE_SEND_MESSAGE})

\* one validation chain: optional(true).isString().isLength({ min, max })
ChainErrors(field, notString, badLength, min, max) ==
  IF field.kind = "undefined" THEN <<>>
  ELSE IF field.kind # "string" THEN <<notString>>
  ELSE IF StrLen(field.str) < min \/ StrLen(field.str) > max THEN <<badLength>>
  ELSE <<>>

ContentErrors(content) ==
  ChainErrors(content, "Content must be a string!",
              "Content length must be between 1 and 2000 characters.",
              MinContent, MaxContent)

SocketIdErrors(socketId) ==
  ChainErrors(socketId, "SocketId must be a string!",
              "SocketId length must be between 1 and 255 characters.",
              MinSocketId, MaxSocketId)

\* customExpressValidatorResult(req): the first error the chains recorded
customExpressValidatorResult(errors) ==
  IF errors = <<>> THEN Null ELSE generateError(errors[1])

NoAttachment == "undefined"
NoRequest ==
  [pc |-> "none", sender |-> Member(FALSE, {}), content |-> Undefined,
   socketId |-> Undefined, file |-> FALSE,
   channel |-> ServerChannel("SERVER_TEXT", 0),
   errors |-> <<>>, attachment |-> NoAttachment]
NoResponse == [status |-> 0, body |-> Null, request |-> NoRequest]

\* res.status(status).json(body) ends the request
Respond(status, body) ==
  /\ res' = [status |-> status, body |-> body, request |-> req]
  /\ req' = NoRequest

\* the handler goes on to its next step
Proceed(request) ==
  /\ req' = request
  /\ res' = NoResponse

\* a request that passed authenticate and channelVerification, which filled
\* in its caches, reaches channelPermissions
Post(sender, content, socketId, file, channel) ==
  /\ req.pc = "none"
  /\ Len(messages) < MaxMessages
  /\ posted < MaxRequests
  /\ posted' = posted + 1
  /\ Proceed([NoRequest EXCEPT !.pc = "channelPermissions",
                               !.sender = sender, !.content = content,
                               !.socketId = socketId, !.file = file,
                               !.channel = channel])
  /\ returned' = NothingReturned
  /\ UNCHANGED <<service, messages, rate>>

\* channelPermissions({ bit, message }): a channel of a server lets through
\* the members it grants the bit
channelPermissions(bit, message) ==
  /\ req.pc = "channelPermissions"
  /\ IF req.channel.inbox.present \/ hasBit(req.channel.permissions, bit)
       THEN Proceed([req EXCEPT !.pc = "memberHasRolePermission"])
     ELSE Respond(400, generateError(message))
  /\ returned' = NothingReturned
  /\ UNCHANGED <<service, messages, rate, posted>>

\* the reason memberHasRolePermission gives
MissingRolePermission == "Missing role permission."

\* memberHasRolePermission(bit): the owner of the server passes, and so does
\* a member one of whose roles grants the bit
memberHasRolePermission(bit) ==
  /\ req.pc = "memberHasRolePermission"
  /\ IF \/ req.channel.inbox.present
        \/ req.sender.owner
        \/ hasBit(EffectivePermissions(req.sender.roles), bit)
       THEN Proceed([req EXCEPT !.pc = "validators"])
     ELSE Respond(400, generateError(MissingRolePermission))
  /\ returned' = NothingReturned
  /\ UNCHANGED <<service, messages, rate, posted>>

\* a chain in which the handler follows the validators at once
validators_SkipsRateLimit ==
  /\ req.pc = "validators"
  /\ Proceed([req EXCEPT !.pc = "route",
                         !.errors = ContentErrors(req.content)
                                      \o SocketIdErrors(req.socketId)])
  /\ returned' = NothingReturned
  /\ UNCHANGED <<service, messages, rate, posted>>

\* body('content') and body('socketId') record their errors and hand the
\* request to rateLimit
validators ==
  /\ req.pc = "validators"
  /\ Proceed([req EXCEPT !.pc = "rateLimit",
                         !.errors = ContentErrors(req.content)
                                      \o SocketIdErrors(req.socketId)])
  /\ returned' = NothingReturned
  /\ UNCHANGED <<service, messages, rate, posted>>

\* the counter of a sender: how many requests its window let through, and
\* when the window opened
Window(count, start) == [count |-> count, start |-> start]
\* the window a request arriving now finds: a new one once expireMS went by
CurrentWindow(expireMS) ==
  IF rate.count = 0 \/ now - rate.start >= expireMS
    THEN Window(0, now)
  ELSE rate

\* rateLimit({ name, expireMS, requestCount }): the requests of one sender
\* beyond requestCount in a window of expireMS are turned away
rateLimit(expireMS, requestCount) ==
  /\ req.pc = "rateLimit"
  /\ LET window == CurrentWindow(expireMS) IN
     IF window.count >= requestCount
       THEN /\ rate' = window
            /\ Respond(429, generateError("Slow down!"))
     ELSE /\ rate' = Window(window.count + 1, window.start)
          /\ Proceed([req EXCEPT !.pc = "route"])
  /\ returned' = NothingReturned
  /\ UNCHANGED <<service, messages, posted>>

\* the check without the trim
HasContent_Untrimmed(content) ==
  content.kind = "string" /\ Truthy(content.str)

\* body.content?.trim() is truthy
HasContent(content) ==
  content.kind = "string" /\ Truthy(Trim(content.str))

\* a handler that does not look at the inbox
route_InboxUnchecked ==
  /\ req.pc = "route"
  /\ LET validateError == customExpressValidatorResult(req.errors) IN
     IF validateError # Null
       THEN Respond(400, validateError)
     ELSE IF req.channel.type \notin TextChannelTypes
       THEN Respond(400, generateError("You cannot send messages in this channel."))
     ELSE IF ~HasContent(req.content) /\ ~req.file
       THEN Respond(400, generateError("content or attachment is required."))
     ELSE IF req.file
       THEN Proceed([req EXCEPT !.pc = "uploadImage"])
     ELSE Proceed([req EXCEPT !.pc = "createMessage"])
  /\ returned' = NothingReturned
  /\ UNCHANGED <<service, messages, rate, posted>>

\* route, from its entry to its first await
route ==
  /\ req.pc = "route"
  /\ LET validateError == customExpressValidatorResult(req.errors) IN
     IF validateError # Null
       THEN Respond(400, validateError)
     ELSE IF req.channel.inbox.present /\ ~req.channel.inbox.canMessage
       THEN Respond(400, generateError("You cannot message this user."))
     ELSE IF req.channel.type \notin TextChannelTypes
       THEN Respond(400, generateError("You cannot send messages in this channel."))
     ELSE IF ~HasContent(req.content) /\ ~req.file
       THEN Respond(400, generateError("content or attachment is required."))
     ELSE IF req.file
       THEN Proceed([req EXCEPT !.pc = "uploadImage"])
     ELSE Proceed([req EXCEPT !.pc = "createMessage"])
  /\ returned' = NothingReturned
  /\ UNCHANGED <<service, messages, rate, posted>>

\* what uploadImage resolves to: [uploadedImage, err]
UploadOk == [ok |-> TRUE, err |-> "", type |-> ""]
UploadFailures ==
  {[ok |-> FALSE, err |-> "string", type |-> "upload failed"],
   [ok |-> FALSE, err |-> "object", type |-> "INVALID_IMAGE"],
   [ok |-> FALSE, err |-> "object", type |-> "OTHER"]}
UploadOutcomes == {UploadOk} \cup UploadFailures

\* `An unknown error has occurred (${err.type})`
UnknownError(type) ==
  IF type = "OTHER" THEN "An unknown error has occurred (OTHER)"
  ELSE "An unknown error has occurred ()"

\* a handler that lets a structured error other than INVALID_IMAGE through
route_uploadImage_UnknownIgnored(outcome) ==
  /\ req.pc = "uploadImage"
  /\ IF ~outcome.ok /\ outcome.err = "string"
       THEN Respond(403, generateError(outcome.type))
     ELSE IF ~outcome.ok /\ outcome.type = "INVALID_IMAGE"
       THEN Respond(403, generateError("You can only upload images for now."))
     ELSE Proceed([req EXCEPT !.pc = "createMessage",
                              !.attachment = IF outcome.ok THEN "image"
                                             ELSE NoAttachment])
  /\ returned' = NothingReturned
  /\ UNCHANGED <<service, messages, rate, posted>>

\* route, from the answer of uploadImage to createMessage
route_uploadImage(outcome) ==
  /\ req.pc = "uploadImage"
  /\ IF ~outcome.ok
       THEN IF outcome.err = "string"
              THEN Respond(403, generateError(outcome.type))
            ELSE IF outcome.type = "INVALID_IMAGE"
              THEN Respond(403, generateError("You can only upload images for now."))
            ELSE Respond(403, generateError(UnknownError(outcome.type)))
       ELSE Proceed([req EXCEPT !.pc = "createMessage",
                                !.attachment = "image"])
  /\ returned' = NothingReturned
  /\ UNCHANGED <<service, messages, rate, posted>>

\* the row createMessage persists for the handler's arguments
createMessage(request) ==
  [content |-> request.content, socketId |-> request.socketId,
   type |-> "CONTENT", attachment |-> request.attachment]

\* route, from createMessage to res.json(message)
route_createMessage ==
  /\ req.pc = "createMessage"
  /\ messages' = Append(messages, createMessage(req))
  /\ Respond(200, Val("message", "", Len(messages) + 1))
  /\ returned' = NothingReturned
  /\ UNCHANGED <<service, rate, posted>>

(***************************************************************************)
(* Specifications.  Initially one user is registered, unconfirmed.         *)
(***************************************************************************)
\* the initial states with env.DEV_MODE in `modes`, the user in one of
\* `servers` servers and owning one of `apps` applications
\* ... and the sender's window holding one of `counts` requests
InitWith(modes, servers, apps, counts) ==
  /\ \E a \in apps : Account = [u \in {"u1"} |-> NewAccount(u, a)]
  /\ \E n \in servers : User = [u \in {"u1"} |-> NewUser(u, n)]
  /\ Dependents = [u \in UserIds |-> IF u = "u1" THEN DependentTables ELSE {}]
  /\ userCache = {}
  /\ sockets = [u \in UserIds |-> {}]
  /\ now = 0
  /\ devMode \in modes
  /\ procs = [p \in Procs |-> Idle]
  /\ returned = NothingReturned
  /\ issueSeq = 0
  /\ used = {}
  /\ req = NoRequest
  /\ res = NoResponse
  /\ messages = <<>>
  /\ \E n \in counts : rate = Window(n, 0)
  /\ posted = 0

InitOf(modes, servers, apps) == InitWith(modes, servers, apps, {0})

\* The arguments callers send.  Each early return of a function is reached
\* by one call; the calls that reach the database carry either code, for
\* the registered user and for an id no row carries.
VerifyCalls ==
  [userId : {"u1"}, code : Codes] \cup [userId : {"u2"}, code : {"c1"}]
ResetCalls ==
  [userId : UserIds, code : Codes, newPassword : {SomePassword}]
    \cup {[userId |-> "u1", code |-> "", newPassword |-> SomePassword],
          [userId |-> "u1", code |-> "c1", newPassword |-> NoPassword],
          [userId |-> "", code |-> "c1", newPassword |-> SomePassword]}
DeleteCalls ==
  [userId : {"u1"}, bot : BOOLEAN] \cup [userId : {"u2"}, bot : {FALSE}]

\* a step of the account service sends no response of the message route
NoMessageStep ==
  /\ res' = NoResponse
  /\ UNCHANGED <<req, messages, rate, posted>>

\* generateSecureCode(): a code is an opaque value, so the first one issued
\* is taken to be c1; a later one is either
SecureCodes == IF issueSeq = 0 THEN {"c1"} ELSE Codes

\* the requests of the email-confirmation track, in the slots P
EmailNext(P) ==
  \/ \E p \in P, u \in UserIds : sendEmailConfirmCode(p, u) /\ NoMessageStep
  \/ \E p \in P, c \in Codes : updateAccountConfirmCode(p, c) /\ NoMessageStep
  \/ \E p \in P, a \in VerifyCalls :
       verifyEmailConfirmCode(p, a.userId, a.code) /\ NoMessageStep
  \/ \E p \in P : updateAccountEmailConfirmed(p) /\ NoMessageStep
  \/ \E p \in P : verify_removeUserCache(p) /\ NoMessageStep

\* the requests of the password-reset track, in the slots P
ResetNext(P) ==
  \/ \E p \in P, e \in Emails : sendResetPasswordCode(p, e) /\ NoMessageStep
  \/ \E p \in P, c \in SecureCodes : updateForgotPasswordCode(p, c) /\ NoMessageStep
  \/ \E p \in P, a \in ResetCalls :
       resetPassword(p, a.userId, a.code, a.newPassword) /\ NoMessageStep
  \/ \E p \in P : reset_update(p) /\ NoMessageStep
  \/ \E p \in P : reset_removeUserCache(p) /\ NoMessageStep
  \/ \E p \in P : \E t \in TokenResults(procs[p].userId, procs[p].version) :
       reset_generateToken(p, t) /\ NoMessageStep

\* the account-deletion requests, in the slots P
DeleteNext(P) ==
  \/ \E p \in P, a \in DeleteCalls :
       deleteAccount(p, a.userId, a.bot) /\ NoMessageStep
  \/ \E p \in P, tag \in Tags : deleteAccountFromDatabase(p, tag) /\ NoMessageStep
  \/ \E p \in P : delete_removeUserCache(p) /\ NoMessageStep
  \/ \E p \in P : delete_disconnectSockets(p) /\ NoMessageStep

Clock == \E d \in TickSteps : Tick(d) /\ NoMessageStep
Clients ==
  \/ \E u \in UserIds, s \in SocketIds : Connect(u, s) /\ NoMessageStep
  \/ \E u \in UserIds : CacheFill(u) /\ NoMessageStep

\* rateLimit({ name: 'create_message', expireMS: 20000, requestCount: 20 })
CREATE_MESSAGE_EXPIRE_MS == 20000
CREATE_MESSAGE_REQUEST_COUNT == 20

\* the steps of a request after it was posted
MessageSteps ==
  \/ channelPermissions(CHANNEL_SEND_MESSAGE,
                        "You are not allowed to send messages in this channel.")
  \/ memberHasRolePermission(ROLE_SEND_MESSAGE)
  \/ validators
  \/ rateLimit(CREATE_MESSAGE_EXPIRE_MS, CREATE_MESSAGE_REQUEST_COUNT)
  \/ route
  \/ \E o \in UploadOutcomes : route_uploadImage(o)
  \/ route_createMessage

\* the message route, one request at a time, for a member the channel and
\* a role let send
MessageNext ==
  \/ \E c \in Contents, k \in SocketIdFields, f \in BOOLEAN, ch \in Channels :
       Post(Sender, c, k, f, ch)
  \/ MessageSteps

\* The whole service in production mode, for a user in no server and with
\* no application: every request, two at a time.
Init == InitOf({FALSE}, {0}, {0})
Next ==
  \/ EmailNext(Procs)
  \/ ResetNext(Procs)
  \/ DeleteNext(Procs)
  \/ MessageNext
  \/ Clock
  \/ Clients
Spec == Init /\ [][Next]_vars

\* The message route alone.
SpecMsg == Init /\ [][MessageNext]_vars

\* The password-reset track alone, two requests at a time, under a clock.
NextReset == ResetNext(Procs) \/ Clock \/ Clients
SpecReset == Init /\ [][NextReset]_vars

\* Email confirmation and account deletion, two requests at a time, in
\* either mode, for a user with or without servers and applications.
InitAccount == InitOf(BOOLEAN, {0, 1}, {0, 1})
NextAccount == EmailNext(Procs) \/ DeleteNext(Procs) \/ Clients
SpecAccount == InitAccount /\ [][NextAccount]_vars

\* Every request, one at a time: a request starts when the one before it
\* has returned.
NextSeq ==
  \/ EmailNext({1})
  \/ ResetNext({1})
  \/ DeleteNext({1})
  \/ Clock
  \/ Clients
SpecSeq == Init /\ [][NextSeq]_vars

\* The password-reset track, two requests at a time, under a clock, with
\* no realtime session and an empty read cache.
NextCodes == ResetNext(Procs) \/ Clock
SpecCodes == Init /\ [][NextCodes]_vars

\* the two steps of sendResetPasswordCode, in the slots P
ResetSendNext(P) ==
  \/ \E p \in P, e \in Emails : sendResetPasswordCode(p, e) /\ NoMessageStep
  \/ \E p \in P, c \in SecureCodes : updateForgotPasswordCode(p, c) /\ NoMessageStep

\* Email confirmation and the sending of reset codes, two requests at a
\* time, with env.DEV_MODE set or not.
InitDev == InitOf(BOOLEAN, {0}, {0})
NextDev == EmailNext(Procs) \/ ResetSendNext(Procs) \/ Clock
SpecDev == InitDev /\ [][NextDev]_vars

\* The permission checks: every kind of member posts to every kind of
\* channel.
PermissionContents == {Undefined, Text(Str(0, MinContent, 0))}
PermissionNext ==
  \/ \E m \in Senders, c \in PermissionContents, f \in BOOLEAN,
        ch \in PermissionChannels :
       Post(m, c, Undefined, f, ch)
  \/ MessageSteps
SpecPerm == Init /\ [][PermissionNext]_vars

\* The rate limit: a member who may send posts to a text channel, under a
\* clock, with a window that is new or one request short of its limit.
InitRate ==
  InitWith({FALSE}, {0}, {0}, {0, CREATE_MESSAGE_REQUEST_COUNT - 1})
NextRate ==
  \/ \E c \in PermissionContents, f \in BOOLEAN :
       Post(Sender, c, Undefined, f,
            ServerChannel("SERVER_TEXT", CHANNEL_SEND_MESSAGE))
  \/ MessageSteps
  \/ Clock
SpecRate == InitRate /\ [][NextRate]_vars

(***************************************************************************)
(* Properties.                                                             *)
(***************************************************************************)
\* what no failing call may touch
stores == <<Account, User, Dependents, userCache, sockets>>

\* C1: a resetPassword call that carries the account's userId and its exact
\* reset code, at a time later than the code's expiry, returns the error
\* 'Invalid or expired code.' and changes neither the account, nor any
\* other row, nor the cache, nor the sessions.
C1_ExpiredCodeRejected ==
  [][\A p \in Procs, u \in DOMAIN Account :
       ( /\ Account[u].resetPasswordCode # NoCode
         /\ Account[u].resetPasswordCodeExpiresAt # NoDate
         /\ now > Account[u].resetPasswordCodeExpiresAt
         /\ resetPassword(p, u, Account[u].resetPasswordCode, SomePassword) )
       => /\ returned'.kind = "return"
          /\ returned'.result = Failure("Invalid or expired code.")
          /\ UNCHANGED stores]_vars

\* C1's case: the call with the exact code of an expired reset has returned
\* the error, with a cache entry and a session there to be left alone
C1_Witness ==
  /\ returned.kind = "return"
  /\ returned.op = "resetPassword"
  /\ returned.result = Failure("Invalid or expired code.")
  /\ HasAccount(returned.userId)
  /\ Account[returned.userId].resetPasswordCode = returned.code
  /\ Account[returned.userId].resetPasswordCodeExpiresAt # NoDate
  /\ now = Account[returned.userId].resetPasswordCodeExpiresAt + 1000
  /\ Account[returned.userId].password = InitialPassword
  /\ returned.userId \in userCache
  /\ sockets[returned.userId] # {}

\* C2: with requests one at a time, on an unconfirmed account that holds a
\* confirm code, verifyEmailConfirmCode with any other code (the code an
\* earlier sendEmailConfirmCode wrote among them) returns 'Invalid code.'
\* and changes nothing; with the code held it goes on to confirm, and the
\* confirming write finds the account unconfirmed (so it happens once),
\* sets emailConfirmed, clears the code and returns [true, null]; on a
\* confirmed account every call returns 'Email already verified.'.
C2_StaleCodeFailsLatestOnce ==
  [][/\ \A p \in Procs, a \in VerifyCalls :
          (HasAccount(a.userId) /\ verifyEmailConfirmCode(p, a.userId, a.code))
          => /\ ( /\ ~Account[a.userId].emailConfirmed
                  /\ Account[a.userId].emailConfirmCode # NoCode
                  /\ Account[a.userId].emailConfirmCode # a.code )
                => /\ returned'.result = Failure("Invalid code.")
                   /\ UNCHANGED stores
             /\ ( /\ ~Account[a.userId].emailConfirmed
                  /\ Account[a.userId].emailConfirmCode = a.code )
                => procs'[p].pc = "updateAccountEmailConfirmed"
             /\ Account[a.userId].emailConfirmed
                => /\ returned'.result = Failure("Email already verified.")
                   /\ UNCHANGED stores
     /\ \A p \in Procs :
          (updateAccountEmailConfirmed(p) /\ HasAccount(procs[p].userId))
          => /\ ~Account[procs[p].userId].emailConfirmed
             /\ Account'[procs[p].userId].emailConfirmed
             /\ Account'[procs[p].userId].emailConfirmCode = NoCode
     /\ \A p \in Procs :
          verify_removeUserCache(p) => returned'.result = Pair(True, Null)
    ]_vars

\* C2's case: sendEmailConfirmCode wrote c1, then c2, and the call with c1
\* has returned 'Invalid code.'
C2_Witness ==
  /\ returned.kind = "return"
  /\ returned.op = "verifyEmailConfirmCode"
  /\ returned.result = Failure("Invalid code.")
  /\ HasAccount(returned.userId)
  /\ Account[returned.userId].priorConfirmCode = returned.code
  /\ Account[returned.userId].emailConfirmCode # NoCode
  /\ Account[returned.userId].emailConfirmCode # returned.code
  /\ ~Account[returned.userId].emailConfirmed

\* C3: a reset code is used once: the update of a resetPassword call that
\* matched the code of one issue finds that no earlier update consumed
\* that issue.
C3_ResetCodeSingleUse ==
  [][\A p \in Procs :
       (reset_update(p) /\ HasAccount(procs[p].userId))
       => procs[p].issue \notin used]_vars

\* C4: every return is a pair with exactly one side populated.
C4_ExactlyOneSide ==
  returned.kind = "return"
    => (returned.result[1] = Null) # (returned.result[2] = Null)

\* C5: no request ends by raising.
C5_NeverRaises == returned.kind # "raise"

\* the request invalidated the cache after its last write
InvalidatedAfterWrite(did) ==
  \A i \in DOMAIN did :
    did[i] = "write" => \E j \in DOMAIN did : j > i /\ did[j] = "cache"

\* C6: a request that wrote an Account or User row has invalidated the
\* user's cache entry after the write when it returns.
C6_WriteThenInvalidate ==
  returned.kind = "return" => InvalidatedAfterWrite(returned.did)

\* C7: when a resetPassword that changed the password returns, no session
\* that was live at the change is still connected.
C7_ResetDisconnectsSessions ==
  ( /\ returned.kind = "return"
    /\ returned.op = "resetPassword"
    /\ returned.did # <<>> )
  => returned.stale = {}

\* C8: deleteAccount without the bot flag, for a user in a server, returns
\* the servers error; for a user in no server whose account has an
\* application, the applications error; either way no row, cache entry or
\* session changes.  With the bot flag neither is checked: the call goes
\* on to the transaction.
C8_BlockedDeleteChangesNothing ==
  [][\A p \in Procs, u \in DOMAIN User :
       /\ (deleteAccount(p, u, FALSE) /\ User[u].servers # 0)
          => /\ returned'.result = Failure(
                  "You must leave all servers before deleting your account.")
             /\ UNCHANGED stores
       /\ ( /\ deleteAccount(p, u, FALSE)
            /\ User[u].servers = 0
            /\ HasAccount(u)
            /\ Account[u].applications # 0 )
          => /\ returned'.result = Failure(
                  "You must delete all applications before deleting your account.")
             /\ UNCHANGED stores
       /\ deleteAccount(p, u, TRUE)
          => /\ procs'[p].pc = "deleteAccountFromDatabase"
             /\ returned'.kind = "none"]_vars

\* C8's case: a user in a server and with an application, a cache entry
\* and a live session, has been refused with the servers error
C8_Witness ==
  /\ returned.kind = "return"
  /\ returned.op = "deleteAccount"
  /\ returned.result = Failure(
       "You must leave all servers before deleting your account.")
  /\ User[returned.userId].servers # 0
  /\ HasAccount(returned.userId)
  /\ Account[returned.userId].applications # 0
  /\ Dependents[returned.userId] = DependentTables
  /\ returned.userId \in userCache
  /\ sockets[returned.userId] # {}

\* the User row is the anonymized one
Anonymized(u) ==
  /\ u.username[1] = "Deleted"
  /\ u.avatar = NoText
  /\ u.banner = NoText
  /\ u.badges = 0

\* C9: in every state the deletion is applied whole or not at all: the
\* Account row is gone exactly when the User row, which stays, is
\* anonymized and exactly when the dependent rows are gone.  A deleteAccount
\* about to invalidate the cache has committed that step; one about to
\* disconnect the sessions has invalidated the cache, which holds no entry
\* of the user; and one that returned has done the three in this order.
C9_DeletionAtomicThenCacheThenSockets ==
  /\ "u1" \in DOMAIN User
  /\ \A u \in DOMAIN User :
       /\ ~HasAccount(u) <=> Anonymized(User[u])
       /\ ~HasAccount(u) <=> User[u].username[1] = "Deleted"
       /\ ~HasAccount(u) <=> Dependents[u] = {}
  /\ \A p \in Procs :
       /\ procs[p].pc = "deleteAccountFromDatabase" => procs[p].did = <<>>
       /\ procs[p].pc = "delete_removeUserCache"
          => /\ ~HasAccount(procs[p].userId)
             /\ procs[p].did = <<"write">>
       /\ procs[p].pc = "delete_disconnectSockets"
          => /\ ~HasAccount(procs[p].userId)
             /\ procs[p].userId \notin userCache
             /\ procs[p].did = <<"write", "cache">>
  /\ (returned.kind = "return" /\ returned.op = "deleteAccount"
        /\ returned.result = Pair(True, Null))
     => /\ returned.did = <<"write", "cache", "disconnect">>
        /\ ~HasAccount(returned.userId)
        /\ returned.userId \notin userCache
        /\ sockets[returned.userId] = {}

\* C9's case: the transaction of a deleteAccount has committed while the
\* user's cache entry and session are still there
C9_Witness ==
  \E p \in Procs :
    /\ procs[p].pc = "delete_removeUserCache"
    /\ ~HasAccount(procs[p].userId)
    /\ Anonymized(User[procs[p].userId])
    /\ procs[p].userId \in userCache
    /\ sockets[procs[p].userId] # {}

\* the request got past validation, on a text channel that may be messaged
Permitted(request) ==
  /\ request.errors = <<>>
  /\ request.channel.type \in TextChannelTypes
  /\ request.channel.inbox.present => request.channel.inbox.canMessage

\* the content is absent or nothing but whitespace
EmptyAfterTrim(content) ==
  content.kind = "undefined" \/ content.str.core = 0

\* C10: a permitted request is answered 400 'content or attachment is
\* required.' exactly when its content is absent or empty after trimming
\* and it carries no file; then nothing is persisted.  Otherwise the handler
\* goes on, and with a successful upload reaches createMessage, which only
\* requests with content or a file reach.
C10_RejectedIffNoContentAndNoFile ==
  [][/\ (route /\ Permitted(req))
        => /\ ( /\ res'.status = 400
                /\ res'.body = generateError("content or attachment is required.") )
              <=> (EmptyAfterTrim(req.content) /\ ~req.file)
           /\ (EmptyAfterTrim(req.content) /\ ~req.file)
              => (req'.pc = "none" /\ messages' = messages)
           /\ ~(EmptyAfterTrim(req.content) /\ ~req.file)
              => /\ req'.pc = IF req.file THEN "uploadImage" ELSE "createMessage"
                 /\ res' = NoResponse
     /\ route_uploadImage(UploadOk) => req'.pc = "createMessage"
     /\ route_createMessage
        => /\ ~(EmptyAfterTrim(req.content) /\ ~req.file)
           /\ Len(messages') = Len(messages) + 1
           /\ res'.status = 200
    ]_vars

\* C10's case: a permitted request whose content is whitespace, without a
\* file, has been answered 400 'content or attachment is required.'
C10_Witness ==
  /\ res.status = 400
  /\ res.body = generateError("content or attachment is required.")
  /\ Permitted(res.request)
  /\ res.request.content.kind = "string"
  /\ StrLen(res.request.content.str) > 0
  /\ res.request.content.str.core = 0
  /\ ~res.request.file
  /\ messages = <<>>

\* C11: a request without a file that is otherwise permitted (text channel
\* that may be messaged, valid socketId) reaches createMessage exactly when
\* its content is a string whose length after trimming is between 1 and
\* 2000, and is answered 400, with nothing persisted, otherwise.
C11_TrimmedLengthDecides ==
  [][( /\ route
       /\ ~req.file
       /\ req.channel.type \in TextChannelTypes
       /\ req.channel.inbox.present => req.channel.inbox.canMessage
       /\ SocketIdErrors(req.socketId) = <<>> )
     => IF /\ req.content.kind = "string"
           /\ req.content.str.core >= 1
           /\ req.content.str.core <= 2000
          THEN req'.pc = "createMessage"
          ELSE res'.status = 400 /\ messages' = messages]_vars

\* C12: when uploadImage answers with an error, a string or a structured
\* one, the request ends there with status 403 and the handler's message for
\* that error, and nothing is persisted; createMessage runs for a request
\* with a file only after the upload succeeded.
C12_UploadErrorEndsRequest ==
  [][/\ \A o \in UploadFailures :
          route_uploadImage(o)
          => /\ res'.status = 403
             /\ res'.body =
                  generateError(
                    IF o.err = "string" THEN o.type
                    ELSE IF o.type = "INVALID_IMAGE"
                      THEN "You can only upload images for now."
                    ELSE "An unknown error has occurred (OTHER)")
             /\ req'.pc = "none"
             /\ messages' = messages
     /\ route_createMessage
        => /\ req.file => req.attachment = "image"
           /\ ~req.file => req.attachment = NoAttachment
    ]_vars

\* C12's case: a request with content and a file that is not an image has
\* been answered 403, and no message is stored
C12_Witness ==
  /\ res.status = 403
  /\ res.body = generateError("You can only upload images for now.")
  /\ res.request.file
  /\ res.request.pc = "uploadImage"
  /\ res.request.content.kind = "string"
  /\ res.request.content.str.core > 0
  /\ messages = <<>>

\* C15: when sendEmailConfirmCode or sendResetPasswordCode succeeds, its
\* write has stored the generated code on the account; with DEV_MODE set
\* the answer carries that code (or the link made of it) and no mail is
\* dispatched; with DEV_MODE not set the answer is the fixed message, which
\* carries no code, and the mail is dispatched.
C15_DevModeAnswersElseMails ==
  [][/\ \A p \in Procs, c \in Codes :
          (updateAccountConfirmCode(p, c) /\ HasAccount(procs[p].userId))
          => /\ Account'[procs[p].userId].emailConfirmCode = c
             /\ returned'.kind = "return"
             /\ returned'.mail = IF devMode THEN "none" ELSE "confirm"
             /\ returned'.result =
                  IF devMode THEN Pair(DevCodeMessage(c), Null)
                  ELSE Pair(Message("Email confirmation code sent."), Null)
     /\ \A p \in Procs, c \in Codes :
          (updateForgotPasswordCode(p, c) /\ HasAccount(procs[p].userId))
          => /\ Account'[procs[p].userId].resetPasswordCode = c
             /\ Account'[procs[p].userId].resetPasswordCodeExpiresAt # NoDate
             /\ returned'.kind = "return"
             /\ returned'.mail = IF devMode THEN "none" ELSE "reset"
             /\ returned'.result =
                  IF devMode
                    THEN Pair(DevLinkMessage(c, procs[p].userId), Null)
                  ELSE Pair(Message("Password reset link sent to your email."),
                            Null)
    ]_vars

\* C15's case: in development mode sendResetPasswordCode has returned the
\* link of the code it stored, and mailed nothing
C15_Witness ==
  /\ devMode
  /\ returned.kind = "return"
  /\ returned.op = "sendResetPasswordCode"
  /\ returned.result[1].t = "devlink"
  /\ returned.mail = "none"
  /\ HasAccount(returned.userId)
  /\ Account[returned.userId].resetPasswordCode = returned.result[1].s

\* the codes resetPassword's lookup accepts for user u at this time
AcceptedCodes(u) == {c \in Codes : AccountsForReset(u, c, now) # {}}

\* C16: at any time at most one code is accepted for an account, and it is
\* the one the latest sendResetPasswordCode stored.  A resetPassword whose
\* code is not the stored one, an earlier code still within its hour among
\* them, returns 'Invalid or expired code.' and changes nothing; a call that
\* goes on to change the password carries the stored code, of the latest
\* issue.
C16_OnlyLatestCodeAccepted ==
  [][/\ \A u \in DOMAIN Account :
          AcceptedCodes(u) \subseteq {Account[u].resetPasswordCode}
     /\ (returned'.op = "resetPassword" /\ returned'.did = <<>>
           /\ HasAccount(returned'.userId))
        => \A p \in Procs, a \in ResetCalls :
             ( /\ HasAccount(a.userId)
               /\ a.code \in Codes
               /\ a.code # Account[a.userId].resetPasswordCode
               /\ Truthy(a.newPassword)
               /\ resetPassword(p, a.userId, a.code, a.newPassword) )
             => /\ returned'.result = Failure("Invalid or expired code.")
                /\ UNCHANGED stores
     /\ \A p \in Procs :
          (procs[p].pc = "idle" /\ procs'[p].pc = "reset_update")
          => /\ procs'[p].code = Account[procs'[p].userId].resetPasswordCode
             /\ Account[procs'[p].userId].issue = issueSeq
             /\ procs'[p].issue = issueSeq
    ]_vars

\* C16's case: c1 was issued, then c2, no time has passed since, and
\* resetPassword with c1 has returned 'Invalid or expired code.'
C16_Witness ==
  /\ returned.kind = "return"
  /\ returned.op = "resetPassword"
  /\ returned.code = "c1"
  /\ returned.result = Failure("Invalid or expired code.")
  /\ HasAccount(returned.userId)
  /\ Account[returned.userId].issue = 2
  /\ Account[returned.userId].resetPasswordCode = "c2"
  /\ now = 0
  /\ Account[returned.userId].resetPasswordCodeExpiresAt = EXPIRE_MS
  /\ Account[returned.userId].password = InitialPassword

\* C17: every persisted message has an attachment or content that is not
\* empty, and its content, when it has one, is a string of 1 to 2000
\* characters after trimming.
C17_MessageInvariant ==
  \A i \in DOMAIN messages :
    /\ \/ messages[i].attachment # NoAttachment
       \/ /\ messages[i].content.kind = "string"
          /\ messages[i].content.str.core >= 1
    /\ messages[i].content.kind # "undefined"
       => /\ messages[i].content.kind = "string"
          /\ messages[i].content.str.core >= 1
          /\ messages[i].content.str.core <= 2000

\* C18: an account whose emailConfirmed is true holds no confirm code.
C18_ConfirmedHoldsNoCode ==
  \A u \in DOMAIN Account :
    Account[u].emailConfirmed => Account[u].emailConfirmCode = NoCode

\* C19: when deleteAccount returns success the user has a User row and no
\* Account row; from then on the User row stays and no Account row comes
\* back; and a sendEmailConfirmCode, verifyEmailConfirmCode
\* or resetPassword for that user returns an error and changes no row.
C19_DeletionIrreversible ==
  [][/\ (returned'.op = "deleteAccount" /\ returned'.result = Pair(True, Null))
        => /\ returned'.userId \notin DOMAIN Account'
           /\ returned'.userId \in DOMAIN User'
     /\ \A u \in DOMAIN User :
          ~HasAccount(u) => (u \notin DOMAIN Account' /\ u \in DOMAIN User')
     /\ returned'.kind = "return"
        => \A p \in Procs, u \in DOMAIN User :
             ~HasAccount(u)
             => /\ sendEmailConfirmCode(p, u)
                   => /\ returned'.result = Failure("Invalid userId.")
                      /\ UNCHANGED db
                /\ \A c \in Codes :
                     verifyEmailConfirmCode(p, u, c)
                     => /\ returned'.result = Failure("Invalid userId.")
                        /\ UNCHANGED db
                /\ \A a \in ResetCalls :
                     (a.userId = u
                        /\ resetPassword(p, a.userId, a.code, a.newPassword))
                     => /\ returned'.result[1] = Null
                        /\ returned'.result[2].t = "error"
                        /\ UNCHANGED db
     /\ \A p \in Procs :
          (procs[p].pc = "idle" /\ procs'[p].pc # "idle"
             /\ procs'[p].op \in {"sendEmailConfirmCode",
                                  "verifyEmailConfirmCode", "resetPassword"})
          => HasAccount(procs'[p].userId)
    ]_vars

\* C19's case: reset code c1 was issued and never used, the account was
\* deleted, and resetPassword with c1 has returned an error
C19_Witness ==
  /\ returned.kind = "return"
  /\ returned.op = "resetPassword"
  /\ returned.code = "c1"
  /\ returned.result = Failure("Invalid or expired code.")
  /\ issueSeq = 1
  /\ used = {}
  /\ now = 0
  /\ HasUser(returned.userId)
  /\ ~HasAccount(returned.userId)
  /\ Anonymized(User[returned.userId])

\* C20: in every step, for an account that exists before and after it,
\* passwordVersion does not decrease; if password or passwordVersion changes,
\* the step is the update of a resetPassword for that account, which raises
\* passwordVersion by exactly 1 and stores the hash of the new password; and
\* the token that resetPassword hands out carries the raised version.
C20_PasswordChangesOnlyInReset ==
  [][/\ \A u \in DOMAIN Account \cap DOMAIN Account' :
          /\ Account'[u].passwordVersion >= Account[u].passwordVersion
          /\ ( \/ Account'[u].passwordVersion # Account[u].passwordVersion
               \/ Account'[u].password # Account[u].password )
             => \E p \in Procs :
                  /\ procs[p].op = "resetPassword"
                  /\ procs[p].userId = u
                  /\ reset_update(p)
          /\ (returned'.kind = "return" /\ returned'.userId = u)
             => /\ Account'[u].passwordVersion = Account[u].passwordVersion
                /\ Account'[u].password = Account[u].password
     /\ \A p \in Procs :
          (reset_update(p) /\ HasAccount(procs[p].userId))
          => /\ Account'[procs[p].userId].passwordVersion =
                  Account[procs[p].userId].passwordVersion + 1
             /\ Account'[procs[p].userId].password =
                  [hashOf |-> [lead |-> 0, core |-> procs[p].newPassword.core,
                               trail |-> 0]]
             /\ procs'[p].version = Account'[procs[p].userId].passwordVersion
    ]_vars

\* C20's case: after the email was confirmed, a resetPassword has returned
\* the token of version 1 for the account, now at version 1 with the hash
\* of the new password
C20_Witness ==
  /\ returned.kind = "return"
  /\ returned.op = "resetPassword"
  /\ returned.result[1] = Token(returned.userId, 1)
  /\ HasAccount(returned.userId)
  /\ Account[returned.userId].passwordVersion = 1
  /\ Account[returned.userId].password # InitialPassword
  /\ Account[returned.userId].emailConfirmed


\* bit `bit` of the integer n is set
BitSet(n, bit) == (n \div bit) % 2 = 1

\* what the permission rules say of a request: on an inbox channel the
\* recipient's flag alone, elsewhere the role bit or ownership together
\* with the channel bit
RoleAllows(request) ==
  \/ request.sender.owner
  \/ \E r \in request.sender.roles : BitSet(r, ROLE_SEND_MESSAGE)
ChannelAllows(request) == BitSet(request.channel.permissions, CHANNEL_SEND_MESSAGE)
MaySend(request) ==
  IF request.channel.inbox.present
    THEN request.channel.inbox.canMessage
  ELSE RoleAllows(request) /\ ChannelAllows(request)

ChannelDenied ==
  generateError("You are not allowed to send messages in this channel.")
RoleDenied == generateError(MissingRolePermission)
InboxDenied == generateError("You cannot message this user.")

\* C13: the request of a sender the rules let send passes the two
\* permission middlewares and the handler's inbox check, and only such a
\* request reaches the upload or createMessage.  Any other is answered 400
\* with the reason of the first check it fails - the channel's, the role's
\* or the inbox's - and leaves the messages as they were.
C13_GrantedIffRulesAllow ==
  [][/\ req.pc \in {"uploadImage", "createMessage"} => MaySend(req)
     /\ (req.pc \in {"validators", "rateLimit", "route"}
           /\ ~req.channel.inbox.present) => MaySend(req)
     /\ (req.pc = "channelPermissions" /\ req'.pc # "channelPermissions")
          => IF req.channel.inbox.present \/ ChannelAllows(req)
               THEN req'.pc = "memberHasRolePermission"
             ELSE /\ res' = [status |-> 400, body |-> ChannelDenied,
                             request |-> req]
                  /\ req' = NoRequest
                  /\ messages' = messages
     /\ (req.pc = "memberHasRolePermission"
           /\ req'.pc # "memberHasRolePermission")
          => IF req.channel.inbox.present \/ RoleAllows(req)
               THEN req'.pc = "validators"
             ELSE /\ res' = [status |-> 400, body |-> RoleDenied,
                             request |-> req]
                  /\ req' = NoRequest
                  /\ messages' = messages
     /\ (req.pc = "route" /\ req'.pc # "route" /\ req.errors = <<>>)
          => IF MaySend(req)
               THEN res'.body # InboxDenied
             ELSE /\ res' = [status |-> 400, body |-> InboxDenied,
                             request |-> req]
                  /\ req' = NoRequest
                  /\ messages' = messages
     /\ res'.body \in {ChannelDenied, RoleDenied, InboxDenied}
          => ~MaySend(res'.request) /\ res'.status = 400 ]_vars

\* a member of two roles, neither of which grants the bit, was refused on a
\* channel that grants it
C13_Witness ==
  /\ res.status = 400
  /\ res.body = RoleDenied
  /\ ~res.request.sender.owner
  /\ Cardinality(res.request.sender.roles) = 2
  /\ ChannelAllows(res.request)
  /\ messages = <<>>

\* the sender's window is open and holds as many requests as it may
LimitReached ==
  /\ rate.count >= CREATE_MESSAGE_REQUEST_COUNT
  /\ now - rate.start < CREATE_MESSAGE_EXPIRE_MS

\* C14: a request that arrives at rateLimit when the window of
\* CREATE_MESSAGE_EXPIRE_MS already let CREATE_MESSAGE_REQUEST_COUNT
\* requests through ends there: it is answered with an error, never enters
\* the handler, has no attachment uploaded and leaves the messages as they
\* were.  Any other request is counted and enters the handler, so the
\* handler only ever runs a request that was counted within the limit.
C14_OverLimitRejectedBeforeHandler ==
  [][/\ req.pc \in {"route", "uploadImage", "createMessage"}
          => rate.count \in 1..CREATE_MESSAGE_REQUEST_COUNT
     /\ (req.pc = "rateLimit" /\ req'.pc # "rateLimit")
          => IF LimitReached
               THEN /\ req' = NoRequest
                    /\ res'.status \in 400..499
                    /\ res'.request = req
                    /\ req.attachment = NoAttachment
                    /\ messages' = messages
                    /\ rate' = rate
             ELSE /\ req'.pc = "route"
                  /\ rate'.count \in 1..CREATE_MESSAGE_REQUEST_COUNT
                  /\ messages' = messages
     /\ (req.pc \in {"route", "uploadImage", "createMessage"}
           /\ req'.pc \in {"uploadImage", "createMessage", "none"})
          => rate' = rate ]_vars

\* the request after the last one of the window carried content and a file,
\* and was turned away with nothing stored
C14_Witness ==
  /\ res.status = 429
  /\ res.request.pc = "rateLimit"
  /\ res.request.file
  /\ HasContent(res.request.content)
  /\ rate.count = CREATE_MESSAGE_REQUEST_COUNT
  /\ posted = 2
  /\ messages = <<>>

======================================================================
